---- MODULE Spec2Model ----
(***************************************************************************)
(* Arduino code generator: the Netlify proxy function                      *)
(* (netlify/functions/generate-arduino-code.cjs and the copy of it at the  *)
(* end of src/App.jsx) and the React client (src/App.jsx).                 *)
(*                                                                         *)
(* Text is a sequence of symbols.  A fixed message of the source is one    *)
(* symbol (the message itself); the texts that come from outside (the      *)
(* generated code, an upstream failure reason, the credential) are         *)
(* sequences over a small alphabet that holds the two characters JSON      *)
(* escapes, so that JSON.stringify and JSON.parse are real conversions.    *)
(***************************************************************************)
EXTENDS Integers, Sequences, FiniteSets, TLC

\* ---------------------------------------------------------------- bounds
\* longest text the generation API returns (generated code or failure reason)
MaxLen == 2
\* invocations of the proxy handler that a behaviour counts
MaxInvocations == 2
\* longest text the generation API returns to a request of the client
MaxClientLen == 1
\* requests of the client that reach the function
MaxFlows == 1
\* auth-state notifications emitted and not yet handled
MaxQueue == 1
\* listener callbacks suspended in signInAnonymously at one time
MaxAnonCalls == 1
\* documents of the store in the history snapshots
MaxDocs == 3
\* latest timestamp the store has set
MaxTs == 2

\* ------------------------------------------------------------ text values
QUOTE == "\""
BSL == "\\"
\* characters of the texts the generation API returns; "k1" also occurs in a
\* credential, so the API may echo a credential
Alphabet == {"a", QUOTE, BSL, "k1"}

RECURSIVE SeqsUpTo(_, _)
SeqsUpTo(S, n) ==
    IF n = 0 THEN {<<>>}
    ELSE LET shorter == SeqsUpTo(S, n - 1)
         IN  shorter \cup {Append(s, c) : s \in {t \in shorter : Len(t) = n - 1}, c \in S}

Texts == SeqsUpTo(Alphabet, MaxLen)

\* s.includes(sub)
Contains(s, sub) ==
    \E i \in 1..(Len(s) + 1) :
        /\ i + Len(sub) - 1 <= Len(s)
        /\ SubSeq(s, i, i + Len(sub) - 1) = sub

\* ------------------------------------------------------------- JS values
Undefined == [t |-> "undefined", v |-> <<>>]
Null == [t |-> "null", v |-> <<>>]
Str(s) == [t |-> "string", v |-> s]

\* !x of JavaScript for the values above: undefined, null and "" are falsy
Falsy(x) == x.t \in {"undefined", "null"} \/ (x.t = "string" /\ x.v = <<>>)

\* a || b for two texts
OrElse(a, b) == IF a = <<>> THEN b ELSE a

\* ------------------------------------------------------------------ JSON
\* JSON.stringify of a string: quoted, with the quote and the backslash escaped
RECURSIVE Escape(_)
Escape(s) ==
    IF s = <<>> THEN <<>>
    ELSE IF Head(s) \in {QUOTE, BSL} THEN <<BSL, Head(s)>> \o Escape(Tail(s))
    ELSE <<Head(s)>> \o Escape(Tail(s))

\* JSON.stringify({key: s}) for a string s
JSONstringify(key, s) == <<"{", QUOTE, key, QUOTE, ":", QUOTE>> \o Escape(s) \o <<QUOTE, "}">>

RECURSIVE Unescape(_)
Unescape(s) ==
    IF s = <<>> THEN <<>>
    ELSE IF Head(s) = BSL /\ Len(s) >= 2 THEN <<s[2]>> \o Unescape(Tail(Tail(s)))
    ELSE <<Head(s)>> \o Unescape(Tail(s))

\* JSON.parse of a one-key object whose value is a string: the key and the value
JSONparse(b) ==
    IF /\ Len(b) >= 8
       /\ SubSeq(b, 1, 2) = <<"{", QUOTE>>
       /\ SubSeq(b, 4, 6) = <<QUOTE, ":", QUOTE>>
       /\ SubSeq(b, Len(b) - 1, Len(b)) = <<QUOTE, "}">>
    THEN [ok |-> TRUE, key |-> b[3], value |-> Unescape(SubSeq(b, 7, Len(b) - 2))]
    ELSE [ok |-> FALSE, key |-> "", value |-> <<>>]

\* ---------------------------------------------------------------- state
VARIABLES
    deployed,      \* which of the two copies of exports.handler is deployed
    apiKeyEnv,     \* process.env.GEMINI_API_KEY
    ppc,           \* position of the handler: "idle", "awaiting", "done"
    pEvent,        \* the event of the running invocation
    pKey,          \* const apiKey of the running invocation
    pCredRead,     \* the invocation has read process.env.GEMINI_API_KEY
    pParsed,       \* the invocation has called JSON.parse(event.body)
    pCall,         \* the generateContent call of the invocation (model, prompt)
    pCalls,        \* generateContent calls made by the invocation
    pOutcome,      \* how the generateContent call ended
    pResp,         \* the value the invocation returns
    pPrevKey,      \* const apiKey of the invocation before it that read one
    nInvocations   \* invocations started

proxyVars == <<deployed, apiKeyEnv, ppc, pEvent, pKey, pCredRead, pParsed, pCall,
               pCalls, pOutcome, pResp, pPrevKey, nInvocations>>

VARIABLES
    \* React state of App
    selectedComponent, description, generatedCode, isLoading, error, codeHistory,
    user, isLoadingAuth, authError, isLoginMode, userId,
    \* the auth collaborator
    session,       \* auth.currentUser
    authQueue,     \* auth-state notifications emitted and not yet handled
    anonCalls,     \* the signInAnonymously calls of suspended listener callbacks
    \* the document store
    store,         \* the documents of artifacts/{appId}/users/{uid}/generatedCode, all uids
    sub,           \* the open onSnapshot subscription: the uid it is scoped to, or NoSub
    pushes,        \* snapshots the open subscription has still to deliver
    \* the three asynchronous handlers
    apc,           \* handleAuthAction: "idle" or "calling"
    spc,           \* handleSignOut: "idle" or "calling"
    gpc,           \* handleGenerateCode: "idle", "fetch", "write"
    gUser,         \* the user the running handleGenerateCode closed over
    gPayload,      \* its functionPayload
    gWrite         \* its addDoc call, with the client's user and the session when it was made

formVars == <<selectedComponent, description, isLoginMode>>
outputVars == <<generatedCode, isLoading, error>>
sessionVars == <<user, isLoadingAuth, authError, userId>>
authVars == <<session, authQueue, anonCalls>>
storeVars == <<store, sub, pushes, codeHistory>>
flowVars == <<apc, spc, gpc, gUser, gPayload, gWrite>>
clientVars == <<formVars, outputVars, sessionVars, authVars, storeVars, flowVars>>

vars == <<proxyVars, clientVars>>

\* --------------------------------------------------------- proxy: inputs
Methods == {"POST", "GET", "undefined"}

\* values a field of the request body can hold
FieldValues == {Undefined, Null, Str(<<>>), Str(<<"LED">>)}
ModelValues == {Undefined, Str(<<"gemini-x">>)}

\* event.body: absent, not JSON, the JSON text null, a JSON text that is no
\* object (a number, a string, true), or a JSON object with the three fields
BodyOf(k, c, d, m) == [k |-> k, selectedComponent |-> c, description |-> d, model |-> m]
Bodies ==
    {BodyOf(k, Undefined, Undefined, Undefined) : k \in {"absent", "badjson", "null", "primitive"}}
    \cup {BodyOf("object", c, d, m) : c \in FieldValues, d \in FieldValues, m \in ModelValues}

Events == [httpMethod : Methods, body : Bodies]

\* values of the environment variable: unset, empty, two keys
Credentials == {Undefined, Str(<<>>), Str(<<"k1">>), Str(<<"k2">>)}

\* how the generation API call ends: response.text() = text, or an error
\* thrown with error.message = text
Outcomes == [ok : BOOLEAN, text : Texts]
NoOutcome == [ok |-> FALSE, text |-> <<"none">>]

NoEvent == [httpMethod |-> "none", body |-> BodyOf("absent", Undefined, Undefined, Undefined)]
NoCall == [model |-> <<>>, prompt |-> <<>>]
NoResponse == [statusCode |-> 0, body |-> <<>>]

\* ------------------------------------------------------- proxy: handler
Response(status, key, text) == [statusCode |-> status, body |-> JSONstringify(key, text)]

\* mutant of MethodAllowed: only GET is refused
MethodAllowedNotGet(event) == event.httpMethod # "GET"

\* event.httpMethod !== 'POST' is the negation of this
MethodAllowed(event) == event.httpMethod = "POST"

MethodNotAllowed ==
    Response(405, "error", <<"Method Not Allowed. This function only accepts POST requests.">>)

\* mutant of ReadCredential: the key is read once and kept in a module variable
ReadCredentialCached == IF nInvocations = 0 THEN apiKeyEnv ELSE pPrevKey

\* process.env.GEMINI_API_KEY, read when the handler runs
ReadCredential == apiKeyEnv

KeyMissingNetlify ==
    Response(500, "error", <<"Server configuration error: API key missing.">>)
KeyMissingAppJsx ==
    Response(500, "error", <<"Server configuration error: API key missing on the server.">>)
KeyMissing(d) == IF d = "netlify" THEN KeyMissingNetlify ELSE KeyMissingAppJsx

\* mutant of ParseBody: destructuring null does not throw
ParseBodyNullAsObject(body) ==
    IF body.k \in {"absent", "badjson"}
    THEN [threw |-> TRUE, selectedComponent |-> Undefined, description |-> Undefined,
          model |-> <<>>]
    ELSE [threw |-> FALSE,
          selectedComponent |-> body.selectedComponent,
          description |-> body.description,
          model |-> IF body.model = Undefined THEN <<"gemini-2.0-flash">> ELSE body.model.v]

\* const { selectedComponent, description, model = "gemini-2.0-flash" } = JSON.parse(event.body):
\* JSON.parse throws on an absent body and on text that is not JSON, destructuring
\* throws on null, and a value that is no object has none of the properties
ParseBody(body) ==
    IF body.k \in {"absent", "badjson", "null"}
    THEN [threw |-> TRUE, selectedComponent |-> Undefined, description |-> Undefined,
          model |-> <<>>]
    ELSE [threw |-> FALSE,
          selectedComponent |-> body.selectedComponent,
          description |-> body.description,
          model |-> IF body.model = Undefined THEN <<"gemini-2.0-flash">> ELSE body.model.v]

\* mutant of FieldsMissing: the description is not checked
FieldsMissingComponentOnly(parsed) == Falsy(parsed.selectedComponent)

\* if (!selectedComponent || !description)
FieldsMissing(parsed) == Falsy(parsed.selectedComponent) \/ Falsy(parsed.description)

BadRequest ==
    Response(400, "error", <<"Missing selectedComponent or description in request body.">>)

\* the prompt template
Prompt(parsed) ==
    <<"Generate Arduino code for a ">> \o parsed.selectedComponent.v
    \o <<" that performs the following: ">> \o parsed.description.v
    \o <<". Ensure the code is complete, includes setup() and loop() functions, defines necessary pins, and adds clear, concise comments. If the component needs a library (e.g., DHT sensor), include the #include directive and a note about installing the library.">>

\* mutant of Success: the text is cut to its first character
SuccessTruncated(text) ==
    Response(200, "generatedCode", IF text = <<>> THEN text ELSE <<Head(text)>>)

Success(text) == Response(200, "generatedCode", text)

\* the catch of the netlify copy: one message for every error thrown in the try
CatchNetlify ==
    Response(500, "error", <<"Failed to generate code via proxy. Please try again.">>)

\* mutant of ApiErrorAppJsx: the message of the error alone, which may be empty
ApiErrorBare(message) == Response(500, "error", message)

\* the inner catch (apiError) of the App.jsx copy
ApiErrorAppJsx(message) ==
    Response(500, "error",
             <<"AI generation failed: ">> \o OrElse(message, <<"Unknown API error">>)
             \o <<". Please try again with a different prompt.">>)

\* the outer catch (parseError) of the App.jsx copy
CatchAppJsx ==
    Response(500, "error", <<"An unexpected server error occurred. Please try again.">>)

ParseFailed(d) == IF d = "netlify" THEN CatchNetlify ELSE CatchAppJsx

\* mutant of ApiFailed: the error reports the key the call was made with
ApiFailedWithKey(d, message) ==
    Response(500, "error", <<"AI generation failed for key ">> \o pKey.v)

ApiFailed(d, message) == IF d = "netlify" THEN CatchNetlify ELSE ApiErrorAppJsx(message)

\* mutant of HandlerStart: the credential is not checked before the call
HandlerStartNoKeyCheck(d, event, key) ==
    IF ~MethodAllowed(event)
    THEN [await |-> FALSE, resp |-> MethodNotAllowed, credRead |-> FALSE, parsed |-> FALSE,
          call |-> NoCall]
    ELSE LET parsed == ParseBody(event.body) IN
         IF parsed.threw
         THEN [await |-> FALSE, resp |-> ParseFailed(d), credRead |-> TRUE, parsed |-> TRUE,
               call |-> NoCall]
         ELSE IF FieldsMissing(parsed)
         THEN [await |-> FALSE, resp |-> BadRequest, credRead |-> TRUE, parsed |-> TRUE,
               call |-> NoCall]
         ELSE [await |-> TRUE, resp |-> NoResponse, credRead |-> TRUE, parsed |-> TRUE,
               call |-> [model |-> parsed.model, prompt |-> Prompt(parsed)]]

\* The handler from its first line to its first return or to the await of
\* generateContent: what it returns (or that it awaits), and what it touched.
HandlerStart(d, event, key) ==
    IF ~MethodAllowed(event)
    THEN [await |-> FALSE, resp |-> MethodNotAllowed, credRead |-> FALSE, parsed |-> FALSE,
          call |-> NoCall]
    ELSE IF Falsy(key)
    THEN [await |-> FALSE, resp |-> KeyMissing(d), credRead |-> TRUE, parsed |-> FALSE,
          call |-> NoCall]
    ELSE LET parsed == ParseBody(event.body) IN
         IF parsed.threw
         THEN [await |-> FALSE, resp |-> ParseFailed(d), credRead |-> TRUE, parsed |-> TRUE,
               call |-> NoCall]
         ELSE IF FieldsMissing(parsed)
         THEN [await |-> FALSE, resp |-> BadRequest, credRead |-> TRUE, parsed |-> TRUE,
               call |-> NoCall]
         ELSE [await |-> TRUE, resp |-> NoResponse, credRead |-> TRUE, parsed |-> TRUE,
               call |-> [model |-> parsed.model, prompt |-> Prompt(parsed)]]

\* The handler after the await: the generated text relayed, or the catch
HandlerFinish(d, outcome) ==
    IF outcome.ok THEN Success(outcome.text) ELSE ApiFailed(d, outcome.text)

\* ------------------------------------------------------- proxy: actions
\* exports.handler is called with an event and runs to its first return or await
Run(event) ==
    LET r == HandlerStart(deployed, event, ReadCredential) IN
    /\ ppc = "idle"
    /\ nInvocations < MaxInvocations
    /\ nInvocations' = nInvocations + 1
    /\ pEvent' = event
    /\ pKey' = IF r.credRead THEN ReadCredential ELSE Undefined
    /\ pCredRead' = r.credRead
    /\ pParsed' = r.parsed
    /\ pCall' = r.call
    /\ pCalls' = IF r.await THEN 1 ELSE 0
    /\ pResp' = r.resp
    /\ ppc' = IF r.await THEN "awaiting" ELSE "done"
    /\ UNCHANGED <<deployed, apiKeyEnv, pOutcome, pPrevKey>>

\* the generateContent call ends, and the handler runs to its return
ApiEnds(outcome) ==
    /\ ppc = "awaiting"
    /\ pOutcome' = outcome
    /\ pResp' = HandlerFinish(deployed, outcome)
    /\ ppc' = "done"
    /\ UNCHANGED <<deployed, apiKeyEnv, pEvent, pKey, pCredRead, pParsed, pCall, pCalls,
                   pPrevKey, nInvocations>>

\* the returned value has left the function: its locals are gone
Returned ==
    /\ ppc' = "idle"
    /\ pEvent' = NoEvent
    /\ pKey' = Undefined
    /\ pCredRead' = FALSE
    /\ pParsed' = FALSE
    /\ pCall' = NoCall
    /\ pCalls' = 0
    /\ pOutcome' = NoOutcome
    /\ pResp' = NoResponse
    /\ pPrevKey' = IF pCredRead THEN pKey ELSE pPrevKey
    /\ UNCHANGED <<deployed, apiKeyEnv, nInvocations>>

Invoke == \E event \in Events : Run(event) /\ UNCHANGED clientVars
ApiResolves == \E t \in Texts : ApiEnds([ok |-> TRUE, text |-> t]) /\ UNCHANGED clientVars
ApiRejects == \E t \in Texts : ApiEnds([ok |-> FALSE, text |-> t]) /\ UNCHANGED clientVars
Return == ppc = "done" /\ Returned /\ UNCHANGED clientVars

\* the operator sets or removes the environment variable
SetEnv ==
    /\ \E k \in Credentials \ {apiKeyEnv} : apiKeyEnv' = k
    /\ UNCHANGED <<deployed, ppc, pEvent, pKey, pCredRead, pParsed, pCall, pCalls, pOutcome,
                   pResp, pPrevKey, nInvocations>>
    /\ UNCHANGED clientVars

\* ------------------------------------------------------- client: values
\* a Firebase user, and null
NoUser == [uid |-> "null", isAnonymous |-> FALSE]
AccountUsers == {[uid |-> "u1", isAnonymous |-> FALSE], [uid |-> "u2", isAnonymous |-> FALSE]}
AnonUser == [uid |-> "anon", isAnonymous |-> TRUE]
Users == AccountUsers \cup {AnonUser}

\* user && !user.isAnonymous
IsAccount(u) == u # NoUser /\ ~u.isAnonymous

NoSub == "none"
NoPayload == [selectedComponent |-> <<>>, description |-> <<>>, model |-> <<>>]
NoWrite == [id |-> 0, uid |-> "none", userId |-> "none", code |-> <<>>, user |-> NoUser,
            session |-> NoUser]

\* the options of the component select, and what a user types as description
Components == {<<"LED">>}
Descriptions == {<<>>, <<" ">>, <<" ", "blink">>}

ClientAlphabet == {QUOTE}
ClientTexts == SeqsUpTo(ClientAlphabet, MaxClientLen)

\* error.code of a rejected signInWithEmailAndPassword / createUserWithEmailAndPassword
AuthCodes == {"auth/invalid-email", "auth/user-disabled", "auth/user-not-found",
              "auth/wrong-password", "auth/email-already-in-use", "auth/weak-password",
              "auth/network-request-failed"}

\* String.prototype.trim, with " " the whitespace character
RECURSIVE TrimStart(_)
TrimStart(s) == IF s # <<>> /\ Head(s) = " " THEN TrimStart(Tail(s)) ELSE s
RECURSIVE TrimEnd(_)
TrimEnd(s) == IF s # <<>> /\ s[Len(s)] = " " THEN TrimEnd(SubSeq(s, 1, Len(s) - 1)) ELSE s
Trim(s) == TrimEnd(TrimStart(s))

\* ------------------------------------------------------- client: render
\* const isGenerateButtonDisabled = isLoading || !selectedComponent || !description.trim()
\* mutant of isGenerateButtonDisabled: the component is not part of it
isGenerateButtonDisabledNoComponent == isLoading \/ Trim(description) = <<>>

\* mutant of isGenerateButtonDisabled: the busy flag is not part of it
isGenerateButtonDisabledFormOnly == selectedComponent = <<>> \/ Trim(description) = <<>>

isGenerateButtonDisabled == isLoading \/ selectedComponent = <<>> \/ Trim(description) = <<>>

\* if (isLoadingAuth) return the loading screen
LoadingScreenShown == isLoadingAuth
\* {!user || user.isAnonymous ? the login / sign-up form : the three panels}
AuthFormShown == ~isLoadingAuth /\ ~IsAccount(user)
MainShown == ~isLoadingAuth /\ IsAccount(user)
\* {user && (... the sign-out button)}
SignOutShown == ~isLoadingAuth /\ user # NoUser

\* {error && (the alert)}
ErrorShown == MainShown /\ error # Null
\* {!isLoading && !error && (the code block)}
CodeBlockShown == MainShown /\ ~isLoading /\ error = Null
\* the generated code the output panel displays
DisplayedCode == IF CodeBlockShown THEN generatedCode ELSE <<>>

\* ------------------------------------------------ client: history effect
\* The effect of useEffect(..., [isLoadingAuth, user, db, appId]) for the values
\* of a render: the subscription it opens, and the state it sets.
\* mutant of EffectSub: the effect subscribes as soon as loading has ended
EffectSubAlways(ila, u) == IF ~ila THEN u.uid ELSE NoSub
\* mutant of EffectSub: the effect opens no subscription
EffectSubNever(ila, u) == NoSub
EffectSub(ila, u) == IF ~ila /\ IsAccount(u) THEN u.uid ELSE NoSub
EffectAuthError(ila, u, ae) == IF ~ila /\ IsAccount(u) THEN Null ELSE ae
EffectError(ila, u, err) ==
    IF ~ila /\ u # NoUser /\ u.isAnonymous
    THEN Str(<<"Log in or sign up to save and view your code history.">>)
    ELSE IF ~ila /\ u = NoUser
    THEN Str(<<"You need to log in or sign up to use all features.">>)
    ELSE err
\* mutant of EffectHistory: the effect leaves the list alone
EffectHistoryKeeps(ila, u, h) == h
EffectHistory(ila, u, h) == IF ~ila /\ ~IsAccount(u) THEN <<>> ELSE h

\* mutant of Commit: the callback does not end the loading state
CommitKeepsLoading(u, ila, ae, err, h) ==
    LET changed == u # user IN
    /\ user' = u
    /\ isLoadingAuth' = isLoadingAuth
    /\ authError' = IF changed THEN EffectAuthError(isLoadingAuth, u, ae) ELSE ae
    /\ error' = IF changed THEN EffectError(isLoadingAuth, u, err) ELSE err
    /\ codeHistory' = IF changed THEN EffectHistory(isLoadingAuth, u, h) ELSE h
    /\ sub' = IF changed THEN EffectSub(isLoadingAuth, u) ELSE sub
    /\ pushes' = IF changed
                 THEN (IF EffectSub(isLoadingAuth, u) # NoSub THEN "due" ELSE "idle")
                 ELSE pushes

\* A render commits user = u and isLoadingAuth = ila, with authError, error and
\* codeHistory set by the handler to ae, err and h; when a dependency of the
\* history effect changed, its cleanup closes the subscription and it runs again.
Commit(u, ila, ae, err, h) ==
    LET changed == <<ila, u>> # <<isLoadingAuth, user>> IN
    /\ user' = u
    /\ isLoadingAuth' = ila
    /\ authError' = IF changed THEN EffectAuthError(ila, u, ae) ELSE ae
    /\ error' = IF changed THEN EffectError(ila, u, err) ELSE err
    /\ codeHistory' = IF changed THEN EffectHistory(ila, u, h) ELSE h
    /\ sub' = IF changed THEN EffectSub(ila, u) ELSE sub
    /\ pushes' = IF changed
                 THEN (IF EffectSub(ila, u) # NoSub THEN "due" ELSE "idle")
                 ELSE pushes

\* ------------------------------------------------- client: auth listener
\* the auth collaborator notifies its listener when the current user changes
Emit(u) ==
    /\ session' = u
    /\ authQueue' = IF u # session THEN Append(authQueue, u) ELSE authQueue

CanEmit == Len(authQueue) < MaxQueue

\* the onAuthStateChanged callback runs for the next notification, to its end
\* or to the await of signInAnonymously
AuthStateChanged ==
    /\ authQueue # <<>>
    /\ authQueue' = Tail(authQueue)
    /\ LET currentUser == Head(authQueue) IN
       IF currentUser # NoUser
       THEN /\ userId' = currentUser.uid
            /\ Commit(currentUser, FALSE, Null, error, codeHistory)
            /\ UNCHANGED <<session, anonCalls>>
       ELSE /\ Len(anonCalls) < MaxAnonCalls
            /\ anonCalls' = Append(anonCalls, "calling")
            /\ UNCHANGED <<session, sessionVars, error, codeHistory, sub, pushes>>
    /\ UNCHANGED <<proxyVars, formVars, generatedCode, isLoading, store, flowVars>>

\* signInAnonymously succeeds: an anonymous user is signed in, unless one is already
AnonSignInResolves ==
    /\ \E i \in 1..Len(anonCalls) :
        /\ anonCalls[i] = "calling"
        /\ \A j \in 1..(i - 1) : anonCalls[j] # "calling"
        /\ anonCalls' = [anonCalls EXCEPT ![i] = "resolved"]
    /\ CanEmit
    /\ Emit(AnonUser)
    /\ UNCHANGED <<proxyVars, formVars, outputVars, sessionVars, storeVars, flowVars>>

AnonSignInRejects ==
    /\ \E i \in 1..Len(anonCalls) :
        /\ anonCalls[i] = "calling"
        /\ \A j \in 1..(i - 1) : anonCalls[j] # "calling"
        /\ anonCalls' = [anonCalls EXCEPT ![i] = "rejected"]
    /\ UNCHANGED <<session, authQueue>>
    /\ UNCHANGED <<proxyVars, formVars, outputVars, sessionVars, storeVars, flowVars>>

\* the callback resumes after the await: the catch if the call was rejected, then
\* setUserId(crypto.randomUUID()); setUser(null); setIsLoadingAuth(false)
AuthStateChangedResumes ==
    /\ anonCalls # <<>>
    /\ Head(anonCalls) # "calling"
    /\ anonCalls' = Tail(anonCalls)
    /\ userId' = "local"
    /\ Commit(NoUser, FALSE,
              IF Head(anonCalls) = "rejected"
              THEN Str(<<"Failed to sign in anonymously. Please try again.">>)
              ELSE authError,
              error, codeHistory)
    /\ UNCHANGED <<session, authQueue>>
    /\ UNCHANGED <<proxyVars, formVars, generatedCode, isLoading, store, flowVars>>

\* the session ends without this client asking for it (signed out elsewhere,
\* account deleted or disabled)
SessionLost ==
    /\ session # NoUser
    /\ CanEmit
    /\ Emit(NoUser)
    /\ UNCHANGED anonCalls
    /\ UNCHANGED <<proxyVars, formVars, outputVars, sessionVars, storeVars, flowVars>>

\* ------------------------------------------------ client: form controls
SelectComponent ==
    /\ MainShown
    /\ \E c \in Components : selectedComponent' = c
    /\ UNCHANGED <<description, isLoginMode>>
    /\ UNCHANGED <<proxyVars, outputVars, sessionVars, authVars, storeVars, flowVars>>

TypeDescription ==
    /\ MainShown
    /\ \E d \in Descriptions : description' = d
    /\ UNCHANGED <<selectedComponent, isLoginMode>>
    /\ UNCHANGED <<proxyVars, outputVars, sessionVars, authVars, storeVars, flowVars>>

\* onClick={() => setIsLoginMode(!isLoginMode)}
ToggleLoginMode ==
    /\ AuthFormShown
    /\ isLoginMode' = ~isLoginMode
    /\ UNCHANGED <<selectedComponent, description>>
    /\ UNCHANGED <<proxyVars, outputVars, sessionVars, authVars, storeVars, flowVars>>

\* onClick={() => setGeneratedCode(item.code)} of a history item
ViewCode ==
    /\ MainShown
    /\ \E i \in 1..Len(codeHistory) : generatedCode' = codeHistory[i].code
    /\ UNCHANGED <<isLoading, error>>
    /\ UNCHANGED <<proxyVars, formVars, sessionVars, authVars, storeVars, flowVars>>

\* ------------------------------------------------ client: handleAuthAction
\* mutant of AuthMessage: auth/user-not-found is not mapped
AuthMessageWrongPasswordOnly(code) ==
    IF code = "auth/invalid-email" THEN <<"Invalid email address.">>
    ELSE IF code = "auth/user-disabled" THEN <<"This user account has been disabled.">>
    ELSE IF code = "auth/wrong-password" THEN <<"Invalid email or password.">>
    ELSE IF code = "auth/email-already-in-use"
    THEN <<"This email is already in use. Try logging in.">>
    ELSE IF code = "auth/weak-password" THEN <<"Password should be at least 6 characters.">>
    ELSE <<"An authentication error occurred.">>

\* the message handleAuthAction shows for error.code
AuthMessage(code) ==
    IF code = "auth/invalid-email" THEN <<"Invalid email address.">>
    ELSE IF code = "auth/user-disabled" THEN <<"This user account has been disabled.">>
    ELSE IF code \in {"auth/user-not-found", "auth/wrong-password"}
    THEN <<"Invalid email or password.">>
    ELSE IF code = "auth/email-already-in-use"
    THEN <<"This email is already in use. Try logging in.">>
    ELSE IF code = "auth/weak-password" THEN <<"Password should be at least 6 characters.">>
    ELSE <<"An authentication error occurred.">>

\* the form is submitted: setAuthError(null); setIsLoading(true); the sign-in or
\* create-account call is made
AuthSubmit ==
    /\ AuthFormShown
    /\ ~isLoading
    /\ authError' = Null
    /\ isLoading' = TRUE
    /\ apc' = "calling"
    /\ UNCHANGED <<user, isLoadingAuth, userId, generatedCode, error>>
    /\ UNCHANGED <<spc, gpc, gUser, gPayload, gWrite>>
    /\ UNCHANGED <<proxyVars, formVars, authVars, storeVars>>

\* the call succeeds: the account is the current user
AuthCallResolves ==
    /\ apc = "calling"
    /\ CanEmit
    /\ \E u \in AccountUsers : Emit(u)
    /\ apc' = "resolved"
    /\ UNCHANGED anonCalls
    /\ UNCHANGED <<spc, gpc, gUser, gPayload, gWrite>>
    /\ UNCHANGED <<proxyVars, formVars, outputVars, sessionVars, storeVars>>

\* handleAuthAction resumes after a successful call: finally setIsLoading(false)
AuthActionResumes ==
    /\ apc = "resolved"
    /\ apc' = "idle"
    /\ isLoading' = FALSE
    /\ UNCHANGED <<generatedCode, error>>
    /\ UNCHANGED <<spc, gpc, gUser, gPayload, gWrite>>
    /\ UNCHANGED <<proxyVars, formVars, sessionVars, authVars, storeVars>>

\* the call is rejected: the catch maps error.code, finally setIsLoading(false)
AuthCallRejects ==
    /\ apc = "calling"
    /\ apc' = "idle"
    /\ \E code \in AuthCodes : authError' = Str(AuthMessage(code))
    /\ isLoading' = FALSE
    /\ UNCHANGED <<user, isLoadingAuth, userId, generatedCode, error>>
    /\ UNCHANGED <<spc, gpc, gUser, gPayload, gWrite>>
    /\ UNCHANGED <<proxyVars, formVars, authVars, storeVars>>

\* --------------------------------------------------- client: handleSignOut
\* mutant of SignOutClick: the button is not disabled by the busy flag
SignOutClickWhileBusy ==
    /\ SignOutShown
    /\ authError' = Null
    /\ isLoading' = TRUE
    /\ spc' = "calling"
    /\ UNCHANGED <<user, isLoadingAuth, userId, generatedCode, error>>
    /\ UNCHANGED <<apc, gpc, gUser, gPayload, gWrite>>
    /\ UNCHANGED <<proxyVars, formVars, authVars, storeVars>>

\* the sign-out button is clicked: setAuthError(null); setIsLoading(true); signOut is called
SignOutClick ==
    /\ SignOutShown
    /\ ~isLoading
    /\ authError' = Null
    /\ isLoading' = TRUE
    /\ spc' = "calling"
    /\ UNCHANGED <<user, isLoadingAuth, userId, generatedCode, error>>
    /\ UNCHANGED <<apc, gpc, gUser, gPayload, gWrite>>
    /\ UNCHANGED <<proxyVars, formVars, authVars, storeVars>>

SignOutResolves ==
    /\ spc = "calling"
    /\ CanEmit
    /\ Emit(NoUser)
    /\ spc' = "resolved"
    /\ UNCHANGED anonCalls
    /\ UNCHANGED <<apc, gpc, gUser, gPayload, gWrite>>
    /\ UNCHANGED <<proxyVars, formVars, outputVars, sessionVars, storeVars>>

\* handleSignOut resumes after the await: setCodeHistory([]); finally setIsLoading(false)
SignOutResumes ==
    /\ spc = "resolved"
    /\ spc' = "idle"
    /\ codeHistory' = <<>>
    /\ isLoading' = FALSE
    /\ UNCHANGED <<generatedCode, error, store, sub, pushes>>
    /\ UNCHANGED <<apc, gpc, gUser, gPayload, gWrite>>
    /\ UNCHANGED <<proxyVars, formVars, sessionVars, authVars>>

\* mutant of SignOutRejects: setCodeHistory([]) runs in the finally block
SignOutRejectsClearsHistory ==
    /\ spc = "calling"
    /\ spc' = "idle"
    /\ authError' = Str(<<"Failed to sign out. Please try again.">>)
    /\ isLoading' = FALSE
    /\ codeHistory' = <<>>
    /\ UNCHANGED <<user, isLoadingAuth, userId, generatedCode, error>>
    /\ UNCHANGED <<apc, gpc, gUser, gPayload, gWrite>>
    /\ UNCHANGED <<proxyVars, formVars, authVars, store, sub, pushes>>

\* signOut is rejected: the catch sets the message, finally setIsLoading(false)
SignOutRejects ==
    /\ spc = "calling"
    /\ spc' = "idle"
    /\ authError' = Str(<<"Failed to sign out. Please try again.">>)
    /\ isLoading' = FALSE
    /\ UNCHANGED <<user, isLoadingAuth, userId, generatedCode, error>>
    /\ UNCHANGED <<apc, gpc, gUser, gPayload, gWrite>>
    /\ UNCHANGED <<proxyVars, formVars, authVars, storeVars>>

\* ------------------------------------------------- client: document store
\* serverTimestamp(): the store's clock when it accepts the write
ServerTime == 1 + Cardinality({d \in store : d.ts # 0})

\* snapshot.docs of a collection, in an order the query does not fix
Orderings(docs) ==
    {o \in [1..Cardinality(docs) -> docs] : \A i, j \in 1..Cardinality(docs) : o[i] = o[j] => i = j}

\* mutant of SortKey: the comparator subtracts the other way round
SortKeyAscending(d) == 0 - d.ts

\* (b.timestamp?.toDate() || 0) - (a.timestamp?.toDate() || 0): a document whose
\* timestamp is not set yet counts as 0
SortKey(d) == d.ts

\* Array.prototype.sort with that comparator; the sort is stable
RECURSIVE InsertSorted(_, _)
InsertSorted(x, s) ==
    IF s = <<>> THEN <<x>>
    ELSE IF SortKey(Head(s)) >= SortKey(x) THEN <<Head(s)>> \o InsertSorted(x, Tail(s))
    ELSE <<x>> \o s
RECURSIVE SortHistory(_)
SortHistory(s) ==
    IF s = <<>> THEN <<>>
    ELSE InsertSorted(s[Len(s)], SortHistory(SubSeq(s, 1, Len(s) - 1)))

\* the subscription listens to a change of the collection it is scoped to
Notified(uid) == IF sub = uid /\ pushes # "dead" THEN "due" ELSE pushes

\* the onSnapshot callback: the snapshot replaces the list, sorted
SnapshotPush ==
    /\ sub # NoSub
    /\ pushes = "due"
    /\ \E o \in Orderings({d \in store : d.owner = sub}) : codeHistory' = SortHistory(o)
    /\ pushes' = "idle"
    /\ UNCHANGED <<store, sub>>
    /\ UNCHANGED <<proxyVars, formVars, outputVars, sessionVars, authVars, flowVars>>

\* mutant of SnapshotError: the error callback also empties the list
SnapshotErrorClearsList ==
    /\ sub # NoSub
    /\ pushes # "dead"
    /\ error' = Str(<<"Failed to load code history.">>)
    /\ codeHistory' = <<>>
    /\ pushes' = "dead"
    /\ UNCHANGED <<store, sub, generatedCode, isLoading>>
    /\ UNCHANGED <<proxyVars, formVars, sessionVars, authVars, flowVars>>

\* the onSnapshot error callback; the store ends a listener that failed
SnapshotError ==
    /\ sub # NoSub
    /\ pushes # "dead"
    /\ error' = Str(<<"Failed to load code history.">>)
    /\ pushes' = "dead"
    /\ UNCHANGED <<store, sub, codeHistory, generatedCode, isLoading>>
    /\ UNCHANGED <<proxyVars, formVars, sessionVars, authVars, flowVars>>

\* a document of a generatedCode collection; ts = 0: its timestamp is not set
HistoryDoc(i, o, t) == [id |-> i, owner |-> o, code |-> <<QUOTE>>, ts |-> t]

\* the stores the snapshots are taken of: every document id is absent or names
\* one document of some account
Slots == {<<"absent", 0>>} \cup ({a.uid : a \in AccountUsers} \X (0..MaxTs))
Stores ==
    {{HistoryDoc(i, f[i][1], f[i][2]) : i \in {j \in 1..MaxDocs : f[j][1] # "absent"}} :
        f \in [1..MaxDocs -> Slots]}

\* a collection changes (this or another session of an account writes to it):
\* a document is added, its pending timestamp is set, or it is deleted; the push
\* of the change before has been delivered
StoreChanges ==
    /\ pushes = "idle"
    /\ \E i \in 1..MaxDocs, a \in AccountUsers, t \in 0..MaxTs :
        /\ \/ /\ \A d \in store : d.id # i
              /\ store' = store \cup {HistoryDoc(i, a.uid, t)}
           \/ /\ t # 0
              /\ HistoryDoc(i, a.uid, 0) \in store
              /\ store' = (store \ {HistoryDoc(i, a.uid, 0)}) \cup {HistoryDoc(i, a.uid, t)}
           \/ /\ HistoryDoc(i, a.uid, t) \in store
              /\ store' = store \ {HistoryDoc(i, a.uid, t)}
        /\ pushes' = Notified(a.uid)
    /\ UNCHANGED <<sub, codeHistory>>
    /\ UNCHANGED <<proxyVars, formVars, outputVars, sessionVars, authVars, flowVars>>

\* ----------------------------------------------- client: handleGenerateCode
\* the button is clicked: the handler of this render runs to the await of fetch
GenerateClick ==
    /\ MainShown
    /\ ~isGenerateButtonDisabled
    /\ nInvocations < MaxFlows
    /\ generatedCode' = <<>>
    /\ error' = Null
    /\ isLoading' = TRUE
    /\ gpc' = "fetch"
    /\ gUser' = user
    /\ gPayload' = [selectedComponent |-> selectedComponent, description |-> description,
                    model |-> <<"gemini-2.0-flash">>]
    /\ UNCHANGED <<apc, spc, gWrite>>
    /\ UNCHANGED <<proxyVars, formVars, sessionVars, authVars, storeVars>>

\* the event the function gets for fetch(functionUrl, {method: 'POST', body: JSON.stringify(payload)})
FetchEvent(payload) ==
    [httpMethod |-> "POST",
     body |-> BodyOf("object", Str(payload.selectedComponent), Str(payload.description),
                     Str(payload.model))]

\* the request of the client reaches the function
ProxyReceives ==
    /\ gpc = "fetch"
    /\ Run(FetchEvent(gPayload))
    /\ UNCHANGED clientVars

ClientApiResolves ==
    \E t \in ClientTexts : ApiEnds([ok |-> TRUE, text |-> t]) /\ UNCHANGED clientVars
ClientApiRejects ==
    \E t \in ClientTexts : ApiEnds([ok |-> FALSE, text |-> t]) /\ UNCHANGED clientVars

\* mutant of GenerateCatch: the message of the error is not shown
GenerateCatchGeneric(message) ==
    /\ error' = Str(<<"Failed to generate code: ", "An unknown error occurred.">>)
    /\ generatedCode' = <<>>
    /\ isLoading' = FALSE
    /\ gpc' = "idle"
    /\ gUser' = NoUser
    /\ gPayload' = NoPayload
    /\ UNCHANGED <<apc, spc, gWrite>>
    /\ UNCHANGED <<formVars, sessionVars, authVars, storeVars>>

\* the catch of handleGenerateCode, and its finally
GenerateCatch(message) ==
    /\ error' = Str(<<"Failed to generate code: ">>
                    \o OrElse(message, <<"An unknown error occurred.">>))
    /\ generatedCode' = <<>>
    /\ isLoading' = FALSE
    /\ gpc' = "idle"
    /\ gUser' = NoUser
    /\ gPayload' = NoPayload
    /\ UNCHANGED <<apc, spc, gWrite>>
    /\ UNCHANGED <<formVars, sessionVars, authVars, storeVars>>

\* fetch is rejected: the request or the response is lost
FetchFails ==
    /\ gpc = "fetch"
    /\ \/ ppc = "idle" /\ UNCHANGED proxyVars
       \/ ppc = "done" /\ Returned
    /\ GenerateCatch(<<"Failed to fetch">>)

\* errorData.error, result.generatedCode: a property of the parsed body, "" if absent
Property(data, key) == IF data.ok /\ data.key = key THEN data.value ELSE <<>>

\* mutant of FetchResponds: the write is decided by, and made under, the user
\* the client holds when fetch resolves
FetchRespondsChecksUser ==
    /\ gpc = "fetch"
    /\ ppc = "done"
    /\ Returned
    /\ LET data == JSONparse(pResp.body)
           code == Property(data, "generatedCode")
       IN
       IF ~(pResp.statusCode \in 200..299)
       THEN GenerateCatch(OrElse(Property(data, "error"),
                                 <<"Netlify Function error: ", "statusText">>))
       ELSE IF code = <<>>
       THEN /\ error' = Str(<<"No code received from the proxy function. Please try a different description.">>)
            /\ generatedCode' = <<>>
            /\ isLoading' = FALSE
            /\ gpc' = "idle"
            /\ gUser' = NoUser
            /\ gPayload' = NoPayload
            /\ UNCHANGED <<apc, spc, gWrite>>
            /\ UNCHANGED <<formVars, sessionVars, authVars, storeVars>>
       ELSE IF IsAccount(user)
       THEN \* addDoc is called: the document is in the local cache, its timestamp pending
            /\ generatedCode' = code
            /\ error' = Null
            /\ gpc' = "write"
            /\ gWrite' = [id |-> nInvocations, uid |-> user.uid, userId |-> user.uid,
                             code |-> code, user |-> user, session |-> session]
            /\ store' = store \cup {[id |-> nInvocations, owner |-> user.uid, code |-> code,
                                     ts |-> 0]}
            /\ pushes' = Notified(user.uid)
            /\ UNCHANGED <<isLoading, apc, spc, gUser, gPayload, sub, codeHistory>>
            /\ UNCHANGED <<formVars, sessionVars, authVars>>
       ELSE /\ generatedCode' = code
            /\ error' = Str(<<"Code generated. Log in to save it to your history.">>)
            /\ isLoading' = FALSE
            /\ gpc' = "idle"
            /\ gUser' = NoUser
            /\ gPayload' = NoPayload
            /\ UNCHANGED <<apc, spc, gWrite>>
            /\ UNCHANGED <<formVars, sessionVars, authVars, storeVars>>

\* fetch resolves with the response of the function; handleGenerateCode runs to
\* its end or to the await of addDoc
FetchResponds ==
    /\ gpc = "fetch"
    /\ ppc = "done"
    /\ Returned
    /\ LET data == JSONparse(pResp.body)
           code == Property(data, "generatedCode")
       IN
       IF ~(pResp.statusCode \in 200..299)
       THEN GenerateCatch(OrElse(Property(data, "error"),
                                 <<"Netlify Function error: ", "statusText">>))
       ELSE IF code = <<>>
       THEN /\ error' = Str(<<"No code received from the proxy function. Please try a different description.">>)
            /\ generatedCode' = <<>>
            /\ isLoading' = FALSE
            /\ gpc' = "idle"
            /\ gUser' = NoUser
            /\ gPayload' = NoPayload
            /\ UNCHANGED <<apc, spc, gWrite>>
            /\ UNCHANGED <<formVars, sessionVars, authVars, storeVars>>
       ELSE IF IsAccount(gUser)
       THEN \* addDoc is called: the document is in the local cache, its timestamp pending
            /\ generatedCode' = code
            /\ error' = Null
            /\ gpc' = "write"
            /\ gWrite' = [id |-> nInvocations, uid |-> gUser.uid, userId |-> gUser.uid,
                             code |-> code, user |-> user, session |-> session]
            /\ store' = store \cup {[id |-> nInvocations, owner |-> gUser.uid, code |-> code,
                                     ts |-> 0]}
            /\ pushes' = Notified(gUser.uid)
            /\ UNCHANGED <<isLoading, apc, spc, gUser, gPayload, sub, codeHistory>>
            /\ UNCHANGED <<formVars, sessionVars, authVars>>
       ELSE /\ generatedCode' = code
            /\ error' = Str(<<"Code generated. Log in to save it to your history.">>)
            /\ isLoading' = FALSE
            /\ gpc' = "idle"
            /\ gUser' = NoUser
            /\ gPayload' = NoPayload
            /\ UNCHANGED <<apc, spc, gWrite>>
            /\ UNCHANGED <<formVars, sessionVars, authVars, storeVars>>

\* addDoc resolves: the store accepted the document and set its timestamp
WriteResolves ==
    /\ gpc = "write"
    /\ store' = {IF d.id = gWrite.id THEN [d EXCEPT !.ts = ServerTime] ELSE d : d \in store}
    /\ pushes' = Notified(gWrite.uid)
    /\ isLoading' = FALSE
    /\ gpc' = "idle"
    /\ gUser' = NoUser
    /\ gPayload' = NoPayload
    /\ gWrite' = NoWrite
    /\ UNCHANGED <<generatedCode, error, sub, codeHistory>>
    /\ UNCHANGED <<apc, spc>>
    /\ UNCHANGED <<proxyVars, formVars, sessionVars, authVars>>

\* mutant of WriteRejects: the catch of the write returns without the finally
WriteRejectsKeepsBusy ==
    /\ gpc = "write"
    /\ store' = {d \in store : d.id # gWrite.id}
    /\ pushes' = Notified(gWrite.uid)
    /\ error' = Str(<<"Code generated but failed to save to history.">>)
    /\ gpc' = "idle"
    /\ gUser' = NoUser
    /\ gPayload' = NoPayload
    /\ gWrite' = NoWrite
    /\ UNCHANGED <<generatedCode, isLoading, sub, codeHistory>>
    /\ UNCHANGED <<apc, spc>>
    /\ UNCHANGED <<proxyVars, formVars, sessionVars, authVars>>

\* addDoc is rejected: the document leaves the local cache, the catch sets the advisory
WriteRejects ==
    /\ gpc = "write"
    /\ store' = {d \in store : d.id # gWrite.id}
    /\ pushes' = Notified(gWrite.uid)
    /\ error' = Str(<<"Code generated but failed to save to history.">>)
    /\ isLoading' = FALSE
    /\ gpc' = "idle"
    /\ gUser' = NoUser
    /\ gPayload' = NoPayload
    /\ gWrite' = NoWrite
    /\ UNCHANGED <<generatedCode, sub, codeHistory>>
    /\ UNCHANGED <<apc, spc>>
    /\ UNCHANGED <<proxyVars, formVars, sessionVars, authVars>>

\* ------------------------------------------------------- specifications
InitProxyVars ==
    /\ deployed \in {"netlify", "appjsx"}
    /\ ppc = "idle"
    /\ pEvent = NoEvent
    /\ pKey = Undefined
    /\ pCredRead = FALSE
    /\ pParsed = FALSE
    /\ pCall = NoCall
    /\ pCalls = 0
    /\ pOutcome = NoOutcome
    /\ pResp = NoResponse
    /\ pPrevKey = Undefined
    /\ nInvocations = 0

\* App as first rendered, before any callback has run
InitClientVars ==
    /\ selectedComponent = <<>>
    /\ description = <<>>
    /\ generatedCode = <<>>
    /\ isLoading = FALSE
    /\ error = Null
    /\ codeHistory = <<>>
    /\ user = NoUser
    /\ isLoadingAuth = TRUE
    /\ authError = Null
    /\ isLoginMode = TRUE
    /\ userId = "null"
    /\ anonCalls = <<>>
    /\ store = {}
    /\ sub = NoSub
    /\ pushes = "idle"
    /\ apc = "idle"
    /\ spc = "idle"
    /\ gpc = "idle"
    /\ gUser = NoUser
    /\ gPayload = NoPayload
    /\ gWrite = NoWrite

\* the function alone, called with any event
InitProxy ==
    /\ InitProxyVars
    /\ apiKeyEnv \in Credentials
    /\ InitClientVars
    /\ session = NoUser
    /\ authQueue = <<>>

NextProxy == Invoke \/ ApiResolves \/ ApiRejects \/ Return \/ SetEnv

SpecProxy == InitProxy /\ [][NextProxy]_vars

\* the client with the function behind it; the auth collaborator restores the
\* session of an earlier visit, if any, and sends the first notification
InitClient ==
    /\ InitProxyVars
    /\ apiKeyEnv = Str(<<"k1">>)
    /\ InitClientVars
    /\ session \in {NoUser} \cup Users
    /\ authQueue = <<session>>

NextClient ==
    \/ AuthStateChanged \/ AnonSignInResolves \/ AnonSignInRejects \/ AuthStateChangedResumes
    \/ SessionLost
    \/ SelectComponent \/ TypeDescription \/ ToggleLoginMode \/ ViewCode
    \/ AuthSubmit \/ AuthCallResolves \/ AuthActionResumes \/ AuthCallRejects
    \/ SignOutClick \/ SignOutResolves \/ SignOutResumes \/ SignOutRejects
    \/ GenerateClick \/ ProxyReceives \/ ClientApiResolves \/ ClientApiRejects
    \/ FetchFails \/ FetchResponds \/ WriteResolves \/ WriteRejects
    \/ SnapshotPush \/ SnapshotError

SpecClient == InitClient /\ [][NextClient]_vars

\* the history subscription alone: an account is signed in, its subscription has
\* just been opened on a store of any content, and the collections change
InitHistory ==
    /\ InitProxyVars
    /\ apiKeyEnv = Str(<<"k1">>)
    /\ selectedComponent = <<>>
    /\ description = <<>>
    /\ generatedCode = <<>>
    /\ isLoading = FALSE
    /\ error = Null
    /\ codeHistory = <<>>
    /\ \E a \in AccountUsers :
        /\ user = a /\ userId = a.uid /\ session = a /\ sub = a.uid
    /\ isLoadingAuth = FALSE
    /\ authError = Null
    /\ isLoginMode = TRUE
    /\ authQueue = <<>>
    /\ anonCalls = <<>>
    /\ store \in Stores
    /\ pushes = "due"
    /\ apc = "idle"
    /\ spc = "idle"
    /\ gpc = "idle"
    /\ gUser = NoUser
    /\ gPayload = NoPayload
    /\ gWrite = NoWrite

NextHistory == SnapshotPush \/ StoreChanges

SpecHistory == InitHistory /\ [][NextHistory]_vars

\* every call the flow awaits settles: the request reaches the function or is
\* lost, the generation API answers the function, fetch resolves or is rejected,
\* addDoc resolves or is rejected
FetchSettles ==
    ProxyReceives \/ ClientApiResolves \/ ClientApiRejects \/ FetchResponds \/ FetchFails
WriteSettles == WriteResolves \/ WriteRejects

SpecClientFair == SpecClient /\ WF_vars(FetchSettles) /\ WF_vars(WriteSettles)

\* the store delivers the pushes that are due
SpecClientDelivers == SpecClient /\ WF_vars(SnapshotPush)

\* ================================================================ claims
\* ------------------------------------------------ the proxy (SpecProxy)
\* the error string of a response body, "" if the body has none
ErrorString(resp) == Property(JSONparse(resp.body), "error")

IsPost == pEvent.httpMethod = "POST"
KeyPresent == pKey.t = "string" /\ pKey.v # <<>>
NonEmptyString(x) == x.t = "string" /\ x.v # <<>>

\* the body lacks selectedComponent or description, or carries either as ""
LacksField(body) ==
    \/ body.k # "object"
    \/ body.selectedComponent \in {Undefined, Str(<<>>)}
    \/ body.description \in {Undefined, Str(<<>>)}

Rejected400 == pResp.statusCode = 400 /\ ErrorString(pResp) # <<>> /\ pCalls = 0

\* C1 as claimed: every POST request whose body lacks selectedComponent or
\* description, or carries either as an empty string, is answered with 400 and a
\* non-empty error string, and no call to the generation API is made.
C1_AsClaimed == (ppc = "done" /\ IsPost /\ LacksField(pEvent.body)) => Rejected400

\* C1 amended: the same for every POST request handled while the credential is
\* set and whose body is JSON text of a value other than null.
C1_MissingFieldIs400 ==
    (/\ ppc = "done" /\ IsPost /\ KeyPresent
     /\ pEvent.body.k \in {"object", "primitive"}
     /\ LacksField(pEvent.body)) => Rejected400

C1_Witness ==
    /\ ppc = "done" /\ IsPost /\ KeyPresent
    /\ pEvent.body.k = "object"
    /\ pEvent.body.selectedComponent = Str(<<"LED">>)
    /\ pEvent.body.description = Str(<<>>)
    /\ pResp.statusCode = 400

\* C2: every request whose method is not POST is answered with 405 and an error
\* body; the handler has not parsed the body, not read the credential and not
\* called the generation API.
C2_NonPostIs405 ==
    (ppc = "done" /\ ~IsPost) =>
        /\ pResp.statusCode = 405
        /\ ErrorString(pResp) # <<>>
        /\ ~pParsed /\ ~pCredRead /\ pCalls = 0

C2_Witness ==
    /\ ppc = "done"
    /\ pEvent.httpMethod = "undefined"
    /\ pEvent.body.k = "object"
    /\ NonEmptyString(pEvent.body.selectedComponent)
    /\ NonEmptyString(pEvent.body.description)
    /\ ~Falsy(apiKeyEnv)
    /\ pResp.statusCode = 405

\* the request passes the method, credential and field checks
Passes ==
    /\ IsPost /\ KeyPresent
    /\ pEvent.body.k = "object"
    /\ NonEmptyString(pEvent.body.selectedComponent)
    /\ NonEmptyString(pEvent.body.description)

\* C3: when the generation API succeeds with text T for a valid request, the
\* response is 200 and its body parses to the one property generatedCode = T,
\* for every T, the empty text and texts with quotes and backslashes included.
C3_SuccessRelaysText ==
    (ppc = "done" /\ Passes /\ pOutcome.ok) =>
        /\ pResp.statusCode = 200
        /\ JSONparse(pResp.body) = [ok |-> TRUE, key |-> "generatedCode", value |-> pOutcome.text]

C3_Witness ==
    /\ ppc = "done" /\ Passes /\ pOutcome.ok
    /\ pOutcome.text = <<BSL, QUOTE>>
    /\ pResp.statusCode = 200

\* C4 as claimed: when the generation API call of a valid request fails with
\* reason R, the response is 500 and its error string contains R.
C4_AsClaimed ==
    (ppc = "done" /\ Passes /\ pOutcome # NoOutcome /\ ~pOutcome.ok) =>
        /\ pResp.statusCode = 500
        /\ Contains(ErrorString(pResp), pOutcome.text)

\* C5: the generation API is called once by an invocation that passes the
\* method, credential and field checks, also when the call failed, and not at
\* all by any other invocation; between invocations nothing of one is left.
C5_OneCallPerValidRequest ==
    /\ ppc \in {"awaiting", "done"} => pCalls = (IF Passes THEN 1 ELSE 0)
    /\ ppc = "awaiting" => Passes
    /\ ppc = "idle" =>
        /\ pCalls = 0 /\ pEvent = NoEvent /\ pKey = Undefined
        /\ pOutcome = NoOutcome /\ pResp = NoResponse

C5_Witness ==
    /\ ppc = "done" /\ Passes
    /\ pOutcome # NoOutcome /\ ~pOutcome.ok
    /\ pCalls = 1
    /\ nInvocations = 2

ConfigurationErrors ==
    {<<"Server configuration error: API key missing.">>,
     <<"Server configuration error: API key missing on the server.">>}

\* C6: a POST invocation reads the credential the environment holds when it
\* runs; when that is unset or empty it returns 500 with the configuration
\* error and makes no call, and when it is set it does not.
C6_CredentialReadAtCall ==
    [][(ppc = "idle" /\ ppc' # "idle" /\ pEvent'.httpMethod = "POST") =>
        /\ pCredRead'
        /\ pKey' = apiKeyEnv
        /\ Falsy(apiKeyEnv) =>
            /\ ppc' = "done"
            /\ pResp'.statusCode = 500
            /\ ErrorString(pResp') \in ConfigurationErrors
            /\ pCalls' = 0
        /\ ~Falsy(apiKeyEnv) => ErrorString(pResp') \notin ConfigurationErrors]_vars

\* an invocation that found the credential removed, after one that found it set
C6_Witness ==
    /\ ppc = "done" /\ IsPost
    /\ pPrevKey = Str(<<"k1">>)
    /\ pKey = Undefined /\ pCredRead
    /\ pResp.statusCode = 500
    /\ pCalls = 0

\* C7: every response has a status in {200, 400, 405, 500}; the body of a 200
\* is an object with the string generatedCode, the body of any other an object
\* with a non-empty string error.
WellFormed(resp) ==
    LET data == JSONparse(resp.body) IN
    /\ resp.statusCode \in {200, 400, 405, 500}
    /\ data.ok
    /\ resp.statusCode = 200 => data.key = "generatedCode"
    /\ resp.statusCode # 200 => (data.key = "error" /\ data.value # <<>>)

C7_ResponseShape ==
    /\ ppc = "done" => WellFormed(pResp)
    /\ ppc = "awaiting" => \A o \in Outcomes : WellFormed(HandlerFinish(deployed, o))

C7_Witness ==
    /\ ppc = "done" /\ deployed = "appjsx"
    /\ pOutcome = [ok |-> FALSE, text |-> <<>>]
    /\ pResp.statusCode = 500

\* what the handler returns for an event, a credential and an outcome of the call
Returns(d, event, key, outcome) ==
    LET r == HandlerStart(d, event, key) IN
    IF r.await THEN HandlerFinish(d, outcome) ELSE r.resp

RealKeys == {k \in Credentials : ~Falsy(k)}

C9_AsClaimed ==
    [][(gpc = "fetch" /\ gpc' # "fetch") =>
        /\ (gpc' = "write") <=> (generatedCode' # <<>> /\ IsAccount(user))
        /\ (gpc' = "write") => (gWrite'.uid = user.uid /\ gWrite'.userId = user.uid)]_vars

\* C10 as claimed: when a flow that got non-empty code ends, with the history
\* write resolved or rejected or with no write made, the output panel (while
\* the main panels are rendered) displays that code.
C10_AsClaimed ==
    [][/\ (gpc = "write" /\ gpc' = "idle" /\ MainShown' /\ generatedCode' = gWrite.code)
           => DisplayedCode' = gWrite.code
       /\ (gpc = "fetch" /\ gpc' = "idle" /\ MainShown' /\ generatedCode' # <<>>)
           => DisplayedCode' = generatedCode']_vars

\* the response the function holds for the client is not a 200 with non-empty code
ResponseFailed ==
    \/ ~(pResp.statusCode \in 200..299)
    \/ Property(JSONparse(pResp.body), "generatedCode") = <<>>

\* C11: a flow whose fetch ends with a non-OK response, with a rejected fetch
\* or with a 200 response of empty code ends with error set and generatedCode
\* empty; after a non-OK response that was received, error holds the error
\* string of the function, and with it the upstream reason where that string
\* has it.
C11_FailureSetsError ==
    [][(gpc = "fetch" /\ gpc' = "idle" /\ (IsAccount(gUser) \/ ppc # "done" \/ ResponseFailed)) =>
        /\ error' # Null /\ error'.v # <<>>
        /\ generatedCode' = <<>>
        /\ (ppc = "done" /\ ~(pResp.statusCode \in 200..299)) =>
               \/ error'.v = <<"Failed to generate code: ", "Failed to fetch">>
               \/ /\ ErrorString(pResp) # <<>>
                  /\ error'.v = <<"Failed to generate code: ">> \o ErrorString(pResp)
                  /\ Contains(ErrorString(pResp), pOutcome.text)
                         => Contains(error'.v, pOutcome.text)]_vars

C11_Witness ==
    /\ gpc = "idle" /\ ~isLoading
    /\ generatedCode = <<>>
    /\ error = Str(<<"Failed to generate code: ", "AI generation failed: ", QUOTE,
                     ". Please try again with a different prompt.">>)

\* the form is filled in: only the busy flag can disable the button
FormComplete == selectedComponent # <<>> /\ Trim(description) # <<>>

\* C12: while a generation flow is outstanding (its fetch or its history write
\* has not ended) the busy flag is set, the Generate button is disabled and a
\* click that starts another flow is not possible.
C12_SingleFlight ==
    gpc # "idle" => (isLoading /\ isGenerateButtonDisabled /\ ~ENABLED GenerateClick)

C12_Witness ==
    /\ gpc = "fetch" /\ ppc = "idle" /\ nInvocations = 0
    /\ MainShown /\ FormComplete
    /\ isGenerateButtonDisabled

\* C13: under the assumption that every call the flow awaits settles, every
\* generation flow that has started leads to a state where the flow has ended
\* and the busy flag is clear.
C13_BusyFlagCleared == (gpc # "idle") ~> (gpc = "idle" /\ ~isLoading)

C13_Witness ==
    /\ gpc = "idle" /\ ~isLoading
    /\ generatedCode # <<>>
    /\ \E d \in store : d.ts # 0 /\ d.code = generatedCode

\* the states of the session
StateAuthLoading == isLoadingAuth
StateAuthenticated == ~isLoadingAuth /\ IsAccount(user)
StateAnonymous == ~isLoadingAuth /\ user # NoUser /\ user.isAnonymous
StateUnauthenticated == ~isLoadingAuth /\ user = NoUser

\* the listener callback runs for a notification
HandlesNotification == authQueue # <<>> /\ authQueue' = Tail(authQueue)

\* C14: when the listener callback has run for a notification with a user, the
\* client holds that user, the loading state has ended and userId is the uid of
\* that user; the state is Authenticated, with the history subscription of that
\* user open, if the user is an account, and Anonymous if the user is
\* anonymous, and never both.
C14_NotificationYieldsState ==
    [][(HandlesNotification /\ Head(authQueue) # NoUser) =>
        LET currentUser == Head(authQueue) IN
        /\ user' = currentUser /\ userId' = currentUser.uid /\ ~StateAuthLoading'
        /\ ~currentUser.isAnonymous => (StateAuthenticated' /\ sub' = currentUser.uid)
        /\ currentUser.isAnonymous => (StateAnonymous' /\ sub' = NoSub)
        /\ ~(StateAuthenticated' /\ StateAnonymous')]_vars

C14_Witness ==
    /\ StateAnonymous /\ userId = "anon" /\ user = AnonUser
    /\ authQueue = <<>> /\ anonCalls = <<>> /\ session = AnonUser

\* a signInAnonymously call of the listener callback has not settled
AnonSignInOutstanding == \E i \in 1..Len(anonCalls) : anonCalls[i] = "calling"

\* C15 as claimed: the client is in AuthLoading until a callback of the
\* listener has set userId, a callback that runs for a "no user" notification
\* starts an anonymous sign-in, and the client is in AuthLoading whenever such
\* a sign-in is outstanding.
C15_AsClaimed ==
    [][/\ (userId' = "null" \/ AnonSignInOutstanding') => StateAuthLoading'
       /\ (HandlesNotification /\ Head(authQueue) = NoUser)
              => anonCalls' = Append(anonCalls, "calling")]_vars

\* the listener callback resumes after a signInAnonymously that was rejected
ResumesAfterRejection ==
    anonCalls # <<>> /\ Head(anonCalls) = "rejected" /\ anonCalls' = Tail(anonCalls)

\* C16: when the listener callback resumes after its anonymous sign-in was
\* rejected, the client holds the auth error of that failure, a locally
\* generated userId and no user, is out of AuthLoading, and has no history
\* subscription open.
C16_AnonymousFailureDegrades ==
    [][ResumesAfterRejection =>
        /\ authError' = Str(<<"Failed to sign in anonymously. Please try again.">>)
        /\ userId' = "local"
        /\ user' = NoUser
        /\ StateUnauthenticated' /\ ~LoadingScreenShown'
        /\ sub' = NoSub]_vars

C16_Witness ==
    /\ StateUnauthenticated /\ userId = "local"
    /\ authError = Str(<<"Failed to sign in anonymously. Please try again.">>)
    /\ sub = NoSub /\ anonCalls = <<>> /\ session = NoUser

\* C17 as claimed: when the signOut call of handleSignOut has resolved the
\* client is in AuthLoading, and it stays there until the listener callback
\* has run for the notification of the sign-out.
C17_AsClaimed ==
    [][/\ (spc = "calling" /\ spc' = "resolved") => StateAuthLoading'
       /\ (spc = "resolved" /\ session = NoUser /\ authQueue' # <<>> /\ ~HandlesNotification)
              => StateAuthLoading']_vars

\* C18 as claimed: from the click on Sign Out on, while handleSignOut has not
\* ended, the history list is empty: the click empties it, before signOut is
\* awaited, and no push handled after the click fills it again.
C18_AsClaimed == [][spc' # "idle" => codeHistory' = <<>>]_vars

\* ------------------------------------- the history list (SpecHistory)
\* C19: when a push has been handled, the history list holds the documents of
\* the subscribed collection, each once and with its id, whatever the list held
\* before and in whatever order the snapshot had them; dated records are in
\* descending order of timestamp and no undated record precedes a dated one.
C19_PushSortsHistory ==
    (sub # NoSub /\ pushes = "idle") =>
        /\ {codeHistory[i] : i \in 1..Len(codeHistory)} = {d \in store : d.owner = sub}
        /\ Len(codeHistory) = Cardinality({d \in store : d.owner = sub})
        /\ \A i, j \in 1..Len(codeHistory) :
            i < j =>
                /\ codeHistory[i].ts = 0 => codeHistory[j].ts = 0
                /\ codeHistory[j].ts # 0 => codeHistory[i].ts >= codeHistory[j].ts

C19_Witness ==
    /\ pushes = "idle" /\ sub = "u1"
    /\ Len(codeHistory) = 3
    /\ codeHistory[1].ts = 2 /\ codeHistory[2].ts = 1 /\ codeHistory[3].ts = 0
    /\ codeHistory[1].id = 3 /\ codeHistory[3].id = 1

\* ----------------------------------------------- the client (SpecClient)
AnonymousAdvisory == Str(<<"Log in or sign up to save and view your code history.">>)
UnauthenticatedAdvisory == Str(<<"You need to log in or sign up to use all features.">>)

\* a subscription is open only in state Authenticated, on the collection of the
\* user the client holds; in the other states none is open
SubscriptionScoped ==
    /\ sub # NoSub => (StateAuthenticated /\ sub = user.uid)
    /\ (StateAnonymous \/ StateUnauthenticated \/ StateAuthLoading) => sub = NoSub

\* C20 as claimed: in every reachable state a subscription is open only in
\* state Authenticated and on the collection of the current user, and in the
\* Anonymous and the degraded unauthenticated state none is open and error
\* holds the advisory of that state.
C20_AsClaimed ==
    /\ SubscriptionScoped
    /\ StateAnonymous => error = AnonymousAdvisory
    /\ StateUnauthenticated => error = UnauthenticatedAdvisory

\* C21: when the error callback of the subscription runs, error is the
\* load-failure message, the history list and the subscription are what they
\* were, and the failed subscription is not replaced: pushes come again only
\* when the history effect runs again for another user or loading state.
C21_SubscriptionErrorKeepsList ==
    [][/\ (pushes # "dead" /\ pushes' = "dead") =>
            /\ error' = Str(<<"Failed to load code history.">>)
            /\ codeHistory' = codeHistory
            /\ sub' = sub /\ sub # NoSub
       /\ (pushes = "dead" /\ pushes' # "dead") =>
            <<isLoadingAuth', user'>> # <<isLoadingAuth, user>>]_vars

C21_Witness ==
    /\ pushes = "dead" /\ sub = "u1"
    /\ error = Str(<<"Failed to load code history.">>)
    /\ codeHistory # <<>>

\* C22: a step by which the client leaves Authenticated closes the history
\* subscription and empties the history list, and in every state outside
\* Authenticated that follows no subscription is open and the list is empty,
\* so no push changes it.
C22_LeavingClosesSubscription ==
    [][/\ (StateAuthenticated /\ ~StateAuthenticated') =>
            (sub' = NoSub /\ pushes' = "idle" /\ codeHistory' = <<>>)
       /\ (~StateAuthenticated /\ ~StateAuthenticated') =>
            (sub' = NoSub /\ codeHistory' = <<>>)]_vars

C22_Witness ==
    /\ StateAnonymous /\ sub = NoSub /\ codeHistory = <<>>
    /\ \E d \in store : d.ts # 0

\* C23 as claimed: in every reachable state every record of the history list
\* comes from the collection of the user the client holds as its session, which
\* is then a non-anonymous account with userId its uid; while the client holds
\* an anonymous user or none the list is empty.
C23_AsClaimed ==
    /\ codeHistory # <<>> => (IsAccount(user) /\ userId = user.uid)
    /\ \A i \in 1..Len(codeHistory) : codeHistory[i].owner = user.uid

\* --------------------------------- the client (SpecClientDelivers)
\* the history write of flow id has succeeded, the client is in Authenticated
\* as the user whose collection holds the record, that user is still signed
\* in, and the subscription has not failed
Saved(id) ==
    /\ StateAuthenticated /\ session = user /\ pushes # "dead"
    /\ \E d \in store : d.id = id /\ d.ts # 0 /\ d.owner = user.uid
\* the history list has the record of flow id
Listed(id) ==
    \E i \in 1..Len(codeHistory) : \E d \in store :
        d.id = id /\ codeHistory[i].id = id /\ codeHistory[i].code = d.code

\* C24: when the history write of a flow has succeeded, then, unless the
\* session ends or changes or the subscription fails, the history list comes
\* to hold the record of that flow, with the code the flow displayed; the
\* store is assumed to deliver the pushes that are due.
C24_SavedRecordListed ==
    \A id \in 1..MaxFlows : Saved(id) ~> (Listed(id) \/ ~Saved(id))

C24_Witness ==
    /\ Saved(1) /\ Listed(1) /\ gpc = "idle" /\ pushes = "idle"
    /\ codeHistory[1].ts # 0
    /\ generatedCode = codeHistory[1].code

\* ----------------------------------------------- the client (SpecClient)
\* the kind of failure an error code of the auth collaborator stands for
FailureKind(code) ==
    IF code = "auth/invalid-email" THEN "invalid email"
    ELSE IF code = "auth/user-disabled" THEN "disabled account"
    ELSE IF code \in {"auth/user-not-found", "auth/wrong-password"} THEN "wrong credentials"
    ELSE IF code = "auth/email-already-in-use" THEN "duplicate account"
    ELSE IF code = "auth/weak-password" THEN "weak password"
    ELSE "other"

\* C25: when a login or sign-up is rejected, the auth error is the message of
\* one of the error codes; the message of a code is fixed text, the same for
\* two codes exactly if they stand for the same kind of failure (invalid
\* email, disabled account, wrong credentials, duplicate account, weak
\* password, any other code), and it does not depend on the mode of the form.
C25_AuthErrorByCode ==
    [][(apc = "calling" /\ apc' = "idle") =>
        /\ \E code \in AuthCodes : authError' = Str(AuthMessage(code))
        /\ \A c, d \in AuthCodes :
            /\ AuthMessage(c) # <<>>
            /\ (AuthMessage(c) = AuthMessage(d)) <=> (FailureKind(c) = FailureKind(d))
        /\ ~isLoading' /\ isLoginMode' = isLoginMode]_vars

C25_Witness ==
    /\ apc = "idle" /\ ~isLoading /\ ~isLoginMode /\ AuthFormShown
    /\ authError = Str(<<"An authentication error occurred.">>)

\* every notification has been handled and no listener callback is suspended
HandlersFinished == authQueue = <<>> /\ anonCalls = <<>>

\* C26 as claimed: once all handlers of notifications have finished, the user
\* the client holds is the user of the last notification emitted (the
\* collaborator's current session), and if that is the anonymous user the
\* client is in Anonymous with userId the uid of that user.
C26_AsClaimed ==
    HandlersFinished =>
        /\ user = session
        /\ session.isAnonymous => (StateAnonymous /\ userId = session.uid)

\* C27: when the fetch of a flow ends with non-empty code, addDoc is called
\* under the account the flow captured at the click, whatever user the client
\* holds and whatever the session is by then: a session that ended while the
\* call was outstanding does not stop the write.
C27_WriteUsesCapturedUser ==
    [][(gpc = "fetch" /\ gpc' # "fetch" /\ generatedCode' # <<>>) =>
        /\ IsAccount(gUser)
        /\ gpc' = "write"
        /\ gWrite'.uid = gUser.uid /\ gWrite'.userId = gUser.uid
        /\ \E d \in store' : d.id = gWrite'.id /\ d.owner = gUser.uid]_vars

C27_Witness ==
    /\ gpc = "write" /\ gUser.uid = "u1" /\ gWrite.uid = "u1"
    /\ ~IsAccount(gWrite.user) /\ ~IsAccount(gWrite.session)
    /\ ~IsAccount(user) /\ ~IsAccount(session)

\* the asynchronous user actions in flight: handleAuthAction, handleSignOut
\* and handleGenerateCode between their start and their finally
InFlight == {a \in {"auth", "signOut", "generate"} :
                \/ a = "auth" /\ apc # "idle"
                \/ a = "signOut" /\ spc # "idle"
                \/ a = "generate" /\ gpc # "idle"}

\* C28: at most one of login or sign-up, sign-out and generation is in flight,
\* and the busy flag is set exactly while one is: no action clears it while
\* another is outstanding, and none starts while it is set.
C28_OneActionInFlight ==
    /\ Cardinality(InFlight) <= 1
    /\ isLoading <=> (InFlight # {})

C28_Witness ==
    /\ InFlight = {"signOut"} /\ spc = "resolved" /\ isLoading
    /\ MainShown /\ FormComplete /\ isGenerateButtonDisabled

\* C29: a click starts a flow only when a component is selected and the
\* description has text other than whitespace, the payload holds the form
\* values of that moment, and the request the function gets from the client
\* has both fields as non-empty strings and is not answered with 400.
C29_ClientRequestsPassValidation ==
    [][/\ (gpc = "idle" /\ gpc' = "fetch") =>
            /\ FormComplete
            /\ gPayload'.selectedComponent = selectedComponent
            /\ gPayload'.description = description
       /\ ppc' # "idle" =>
            /\ pEvent' = FetchEvent(gPayload')
            /\ ~LacksField(pEvent'.body)
            /\ pResp'.statusCode # 400]_vars

C29_Witness ==
    /\ gpc = "fetch" /\ ppc = "done"
    /\ pEvent.body.description = Str(<<" ", "blink">>)
    /\ pResp.statusCode = 200

\* ------------------------------------------------ the proxy (SpecProxy)
GenericErrors ==
    {<<"Failed to generate code via proxy. Please try again.">>,
     <<"An unexpected server error occurred. Please try again.">>}

Generic500 == pResp.statusCode = 500 /\ ErrorString(pResp) \in GenericErrors /\ pCalls = 0
Configuration500 ==
    pResp.statusCode = 500 /\ ErrorString(pResp) \in ConfigurationErrors /\ pCalls = 0

\* C30 as claimed: the response is decided by the first check that fails, in
\* the order method, credential, body parse, required fields: 405 for another
\* method, the configuration error for a POST without credential whatever the
\* body, the generic 500 and no call for a POST whose body is absent or is
\* not a JSON object, 400 for an object that lacks a field, and a call
\* otherwise.
C30_AsClaimed ==
    ppc = "done" =>
        IF ~IsPost THEN pResp.statusCode = 405 /\ pCalls = 0
        ELSE IF ~KeyPresent THEN Configuration500
        ELSE IF pEvent.body.k # "object" THEN Generic500
        ELSE IF Falsy(pEvent.body.selectedComponent) \/ Falsy(pEvent.body.description)
        THEN pResp.statusCode = 400 /\ pCalls = 0
        ELSE pCalls = 1 /\ pResp.statusCode \in {200, 500}

\* C30 amended: the same, with the generic 500 for a body that is absent, is
\* not JSON text or is the JSON text null, and 400 for every other body that
\* lacks a field, JSON text of a value that is no object included.
C30_FirstFailingCheckDecides ==
    ppc = "done" =>
        IF ~IsPost THEN pResp.statusCode = 405 /\ pCalls = 0
        ELSE IF ~KeyPresent THEN Configuration500
        ELSE IF pEvent.body.k \in {"absent", "badjson", "null"} THEN Generic500
        ELSE IF Falsy(pEvent.body.selectedComponent) \/ Falsy(pEvent.body.description)
        THEN pResp.statusCode = 400 /\ pCalls = 0
        ELSE pCalls = 1 /\ pResp.statusCode \in {200, 500}

C30_Witness ==
    /\ ppc = "done" /\ IsPost /\ KeyPresent
    /\ pEvent.body.k = "null"
    /\ Generic500

\* ------------------------------------------- failed auth actions (SpecClient)
\* a step of handleAuthAction or handleSignOut on the path of a rejected call:
\* the click up to its await, and the catch and finally after the rejection
FailedAuthStep ==
    \/ apc = "idle" /\ apc' = "calling"
    \/ apc = "calling" /\ apc' = "idle"
    \/ spc = "idle" /\ spc' = "calling"
    \/ spc = "calling" /\ spc' = "idle"

AuthFailed == (apc = "calling" /\ apc' = "idle") \/ (spc = "calling" /\ spc' = "idle")

\* C31: a login, sign-up or sign-out whose call is rejected changes only
\* authError and isLoading: the cached user, userId, codeHistory, generatedCode,
\* the open subscription and every other piece of state are as before, the
\* message is set, and isLoading is false when the handler ends.
C31_FailedAuthFrame ==
    [][FailedAuthStep =>
        /\ UNCHANGED <<user, userId, codeHistory, generatedCode, sub>>
        /\ UNCHANGED <<isLoadingAuth, error, pushes, store, authVars, formVars, proxyVars>>
        /\ UNCHANGED <<gpc, gUser, gPayload, gWrite>>
        /\ AuthFailed => (~isLoading' /\ authError' # Null)
        /\ ~AuthFailed => (isLoading' /\ authError' = Null)]_vars

C31_Witness ==
    /\ spc = "idle" /\ ~isLoading
    /\ authError = Str(<<"Failed to sign out. Please try again.">>)
    /\ user = session /\ IsAccount(user) /\ userId = user.uid
    /\ sub = user.uid /\ codeHistory # <<>> /\ generatedCode # <<>>

====
